---- MODULE Spec2Model ----
(***************************************************************************)
(* Tic Tac Toe: the rules evaluator (calculateWinner, getAvailableMoves),  *)
(* the minimax move search, and the App component's game session, modelled *)
(* from tic_tac_toe_frontend/src/App.js.                                   *)
(***************************************************************************)
EXTENDS Integers, Sequences, FiniteSets, TLC

\* JavaScript null: the content of an empty cell, and "no winner".
Null == "null"

Marks == {"X", "O"}

\* Indices of a 9-cell board (JavaScript arrays are 0-based).
Cells == 0..8

\* Array(9).fill(null)
EmptyBoard == CHOOSE squares \in [Cells -> {Null}] : TRUE

\* The test of one line [a, b, c]:
\* squares[a] && squares[a] === squares[b] && squares[b] === squares[c]
lineComplete(squares, a, b, c) ==
  squares[a] # Null /\ squares[a] = squares[b] /\ squares[b] = squares[c]

\* calculateWinner with the last diagonal of the table mistyped as [2, 4, 7].
calculateWinnerBadDiagonal(squares) ==
  IF      lineComplete(squares, 0, 1, 2) THEN squares[0]
  ELSE IF lineComplete(squares, 3, 4, 5) THEN squares[3]
  ELSE IF lineComplete(squares, 6, 7, 8) THEN squares[6]
  ELSE IF lineComplete(squares, 0, 3, 6) THEN squares[0]
  ELSE IF lineComplete(squares, 1, 4, 7) THEN squares[1]
  ELSE IF lineComplete(squares, 2, 5, 8) THEN squares[2]
  ELSE IF lineComplete(squares, 0, 4, 8) THEN squares[0]
  ELSE IF lineComplete(squares, 2, 4, 7) THEN squares[2]
  ELSE Null

\* for (const [a, b, c] of lines): the loop over the constant table of the 8
\* winning triples, unrolled in the table's order; the first complete line
\* returns the mark of its first cell.
calculateWinner(squares) ==
  IF      lineComplete(squares, 0, 1, 2) THEN squares[0]  \* rows
  ELSE IF lineComplete(squares, 3, 4, 5) THEN squares[3]
  ELSE IF lineComplete(squares, 6, 7, 8) THEN squares[6]
  ELSE IF lineComplete(squares, 0, 3, 6) THEN squares[0]  \* cols
  ELSE IF lineComplete(squares, 1, 4, 7) THEN squares[1]
  ELSE IF lineComplete(squares, 2, 5, 8) THEN squares[2]
  ELSE IF lineComplete(squares, 0, 4, 8) THEN squares[0]  \* diags
  ELSE IF lineComplete(squares, 2, 4, 6) THEN squares[2]
  ELSE Null

\* The values of i in the loop  for (let i = 0; i < squares.length; i += 1).
Indices == <<0, 1, 2, 3, 4, 5, 6, 7, 8>>

\* getAvailableMoves with the loop started at i = 1.
getAvailableMovesFromOne(squares) ==
  SelectSeq(Tail(Indices), LAMBDA i : squares[i] = Null)

\* if (!squares[i]) moves.push(i), for i ascending.
getAvailableMoves(squares) ==
  SelectSeq(Indices, LAMBDA i : squares[i] = Null)

\* bestScore is held as a sequence: <<>> before the first comparison (the
\* source's -Infinity in the maximizing loop and Infinity in the minimizing
\* loop), <<s>> once it holds the score s.
NegInfinity == <<>>
PosInfinity == <<>>

\* m.score > bestScore: every score exceeds -Infinity.
scoreGreater(score, bestScore) ==
  IF Len(bestScore) = 0 THEN TRUE ELSE score > bestScore[1]

\* m.score < bestScore: every score is below Infinity.
scoreLess(score, bestScore) ==
  IF Len(bestScore) = 0 THEN TRUE ELSE score < bestScore[1]

\* A maximizing loop that returns the position of the best move in the
\* moves array instead of the board index stored in it.
RECURSIVE maximizePosition(_, _, _, _)
maximizePosition(moves, k, bestScore, bestMove) ==
  IF k > Len(moves)
  THEN IF Len(bestScore) = 0 THEN bestMove
       ELSE [index |-> bestMove.position - 1, score |-> bestMove.score]
  ELSE IF scoreGreater(moves[k].score, bestScore)
       THEN maximizePosition(moves, k + 1, <<moves[k].score>>,
                             [position |-> k, score |-> moves[k].score])
       ELSE maximizePosition(moves, k + 1, bestScore, bestMove)

\* A maximizing loop written with >= : the last of the best moves wins ties.
RECURSIVE maximizeLastTie(_, _, _, _)
maximizeLastTie(moves, k, bestScore, bestMove) ==
  IF k > Len(moves) THEN bestMove
  ELSE IF Len(bestScore) = 0 \/ moves[k].score >= bestScore[1]
       THEN maximizeLastTie(moves, k + 1, <<moves[k].score>>, moves[k])
       ELSE maximizeLastTie(moves, k + 1, bestScore, bestMove)

\* A maximizing loop whose comparison never succeeds: it returns the initial
\* bestMove, moves[0].
maximizeNeverUpdates(moves, k, bestScore, bestMove) == bestMove

\* The maximizing loop: bestMove changes only on a strictly greater score.
RECURSIVE maximize(_, _, _, _)
maximize(moves, k, bestScore, bestMove) ==
  IF k > Len(moves) THEN bestMove
  ELSE IF scoreGreater(moves[k].score, bestScore)
       THEN maximize(moves, k + 1, <<moves[k].score>>, moves[k])
       ELSE maximize(moves, k + 1, bestScore, bestMove)

\* A minimizing loop written with the maximizing comparison (m.score >
\* bestScore): the opponent is taken to pick its worst reply.
RECURSIVE minimizeWithGreater(_, _, _, _)
minimizeWithGreater(moves, k, bestScore, bestMove) ==
  IF k > Len(moves) THEN bestMove
  ELSE IF scoreGreater(moves[k].score, bestScore)
       THEN minimizeWithGreater(moves, k + 1, <<moves[k].score>>, moves[k])
       ELSE minimizeWithGreater(moves, k + 1, bestScore, bestMove)

\* The minimizing loop: bestMove changes only on a strictly smaller score.
RECURSIVE minimize(_, _, _, _)
minimize(moves, k, bestScore, bestMove) ==
  IF k > Len(moves) THEN bestMove
  ELSE IF scoreLess(moves[k].score, bestScore)
       THEN minimize(moves, k + 1, <<moves[k].score>>, moves[k])
       ELSE minimize(moves, k + 1, bestScore, bestMove)

\* currentPlayer === aiPlayer ? humanPlayer : aiPlayer
otherPlayer(currentPlayer, aiPlayer, humanPlayer) ==
  IF currentPlayer = aiPlayer THEN humanPlayer ELSE aiPlayer

\* The score of a board won by aiPlayer, without the depth preference.
winScoreNoDepth(depth) == 10

\* if (winner === aiPlayer) return { score: 10 - depth }
winScore(depth) == 10 - depth

\* The score of a board won by humanPlayer with the sign of a win.
lossScorePositive(depth) == 10 - depth

\* The score of a board won by humanPlayer, without the depth preference.
lossScoreNoDepth(depth) == -10

\* if (winner === humanPlayer) return { score: depth - 10 }
lossScore(depth) == depth - 10

\* A result of minimax: {score} at a terminal board, {index, score} otherwise.
RECURSIVE minimax(_, _, _, _, _)
minimax(squares, currentPlayer, aiPlayer, humanPlayer, depth) ==
  LET winner == calculateWinner(squares) IN
  IF winner = aiPlayer THEN [score |-> winScore(depth)]
  ELSE IF winner = humanPlayer THEN [score |-> lossScore(depth)]
  ELSE LET avail == getAvailableMoves(squares) IN
       IF Len(avail) = 0 THEN [score |-> 0]
       ELSE LET \* for (const idx of avail): place currentPlayer at idx on a
                \* copy, recurse with the other player at depth + 1, and
                \* push {index, score}.  moves[k] is the entry pushed for
                \* avail[k]; \o <<>> keeps the array as a plain sequence.
                moves ==
                  [k \in 1..Len(avail) |->
                     [index |-> avail[k],
                      score |-> minimax(
                        [squares EXCEPT ![avail[k]] = currentPlayer],
                        otherPlayer(currentPlayer, aiPlayer, humanPlayer),
                        aiPlayer, humanPlayer, depth + 1).score]] \o <<>>
            IN IF currentPlayer = aiPlayer
               THEN maximize(moves, 1, NegInfinity, moves[1])
               ELSE minimize(moves, 1, PosInfinity, moves[1])

\* const aiPlayer = 'O'; const humanPlayer = 'X';
aiPlayer == "O"
humanPlayer == "X"

\* const winner = useMemo(() => calculateWinner(squares), [squares])
winnerOf(squares) == calculateWinner(squares)

\* const isDraw = useMemo(() => !winner && getAvailableMoves(squares).length === 0, ...)
isDraw(squares) ==
  winnerOf(squares) = Null /\ Len(getAvailableMoves(squares)) = 0

\* The value the game-over effect gives the gameOver flag for a board:
\* if (winner) setGameOver(true) else if (isDraw) setGameOver(true)
\* else setGameOver(false).
gameOverOf(squares) ==
  IF winnerOf(squares) # Null THEN TRUE
  ELSE IF isDraw(squares) THEN TRUE
  ELSE FALSE

\* const aiIndex = best?.index; aiIndex !== undefined && squares[aiIndex] == null
\* A terminal result {score} has no index field: aiIndex is undefined.
aiIndexUsable(squares, best) ==
  "index" \in DOMAIN best /\ squares[best.index] = Null

\* The AI timer callback with setXIsNext(true) outside the guard.
aiTimerCallbackAlwaysPasses(squares, xIsNext) ==
  LET best == minimax(squares, aiPlayer, aiPlayer, humanPlayer, 0)
  IN IF aiIndexUsable(squares, best)
     THEN [squares |-> [squares EXCEPT ![best.index] = aiPlayer],
           xIsNext |-> TRUE]
     ELSE [squares |-> squares, xIsNext |-> TRUE]

\* The AI timer callback without setXIsNext(true): the turn stays with O.
aiTimerCallbackKeepsTurn(squares, xIsNext) ==
  LET best == minimax(squares, aiPlayer, aiPlayer, humanPlayer, 0)
  IN IF aiIndexUsable(squares, best)
     THEN [squares |-> [squares EXCEPT ![best.index] = aiPlayer],
           xIsNext |-> xIsNext]
     ELSE [squares |-> squares, xIsNext |-> xIsNext]

\* The body of the AI timer callback:
\*   const best = minimax(squares, aiPlayer, aiPlayer, humanPlayer);
\*   if (aiIndex !== undefined && squares[aiIndex] == null) {
\*     next[aiIndex] = aiPlayer; setSquares(next); setXIsNext(true); }
\* The result is the board and the turn after the callback; both are the
\* ones it was given when the guard fails and no state is set.
aiTimerCallback(squares, xIsNext) ==
  LET best == minimax(squares, aiPlayer, aiPlayer, humanPlayer, 0)
  IN IF aiIndexUsable(squares, best)
     THEN [squares |-> [squares EXCEPT ![best.index] = aiPlayer],
           xIsNext |-> TRUE]
     ELSE [squares |-> squares, xIsNext |-> xIsNext]

\* The same step for an engine that plays X and maximizes for X, as used in
\* computer versus computer play: minimax(squares, 'X', 'X', 'O'), the mark
\* X on the chosen cell, and the turn handed to O.
xEngineStep(squares, xIsNext) ==
  LET best == minimax(squares, humanPlayer, humanPlayer, aiPlayer, 0)
  IN IF aiIndexUsable(squares, best)
     THEN [squares |-> [squares EXCEPT ![best.index] = humanPlayer],
           xIsNext |-> FALSE]
     ELSE [squares |-> squares, xIsNext |-> xIsNext]

VARIABLES
  squares,   \* the board: a function from 0..8 to "X", "O" or null
  xIsNext,   \* whether X is the player to move
  xPlayer,   \* who plays X in a simulated game: "human" or "engine"
  call       \* the last function applied to the board, with its result

\* The rest of the App component: its other state hooks, and where React
\* stands in rendering it.
VARIABLES
  mode,          \* 'AI' or 'HUMAN'
  scores,        \* { X, O, draws }
  gameOver,      \* the gameOver flag
  statusBanner,  \* the text under the title
  rendered,      \* the values of squares, xIsNext, mode and gameOver in the
                 \* last committed render: what the handlers, the effects
                 \* and the timer callback created by that render read
  flushed,       \* the same values in the last render whose effects ran:
                 \* the dependencies an effect is compared with
  passive,       \* the effects of the last committed render have not run yet
  timer          \* the pending 350ms timer with the board its callback
                 \* captured, or none

sessionVars ==
  <<mode, scores, gameOver, statusBanner, rendered, flushed, passive, timer>>

vars == <<squares, xIsNext, xPlayer, call, sessionVars>>

NoCall == [op |-> "none"]

NoTimer == [set |-> FALSE]

\* What a render captures of the state.
renderOf(sq, x, m, g) ==
  [squares |-> sq, xIsNext |-> x, mode |-> m, gameOver |-> g]

\* The component right after it is mounted: the useState initial values,
\* with the status text the game over effect gives on the first render.
Mounted ==
  /\ mode = "AI"
  /\ scores = [X |-> 0, O |-> 0, draws |-> 0]
  /\ gameOver = FALSE
  /\ statusBanner = "X's turn"
  /\ rendered = renderOf(squares, xIsNext, "AI", FALSE)
  /\ flushed = rendered
  /\ passive = FALSE
  /\ timer = NoTimer

-----------------------------------------------------------------------------
(***************************************************************************)
(* SpecPlay: whole games from the empty board.  O is always the engine     *)
(* (the AI timer callback).  X is either a human who may click any empty   *)
(* cell on X's turn (AI mode) or a second engine that maximizes for X.     *)
(* Marks are placed only while the game is not over.                       *)
(***************************************************************************)
InitPlay ==
  /\ squares = EmptyBoard
  /\ xIsNext = TRUE
  /\ xPlayer \in {"human", "engine"}
  /\ call = NoCall
  /\ Mounted

\* handleSquareClick(index) in AI mode on X's turn:
\* if (gameOver || squares[index] || (mode === 'AI' && !xIsNext)) return;
\* next[index] = currentPlayer; setSquares(next); setXIsNext(!xIsNext)
PlayHuman(index) ==
  /\ xPlayer = "human"
  /\ ~gameOverOf(squares)
  /\ squares[index] = Null
  /\ xIsNext
  /\ squares' = [squares EXCEPT ![index] = IF xIsNext THEN "X" ELSE "O"]
  /\ xIsNext' = ~xIsNext
  /\ UNCHANGED <<xPlayer, call, sessionVars>>

\* The AI move effect: if (mode === 'AI' && !gameOver && !xIsNext) the timer
\* callback runs on the board of that render.
PlayEngineO ==
  /\ ~gameOverOf(squares)
  /\ ~xIsNext
  /\ \E after \in {aiTimerCallback(squares, xIsNext)} :
       squares' = after.squares /\ xIsNext' = after.xIsNext
  /\ UNCHANGED <<xPlayer, call, sessionVars>>

\* X's step in computer versus computer play.
PlayEngineX ==
  /\ xPlayer = "engine"
  /\ ~gameOverOf(squares)
  /\ xIsNext
  /\ \E after \in {xEngineStep(squares, xIsNext)} :
       squares' = after.squares /\ xIsNext' = after.xIsNext
  /\ UNCHANGED <<xPlayer, call, sessionVars>>

NextPlay ==
  \/ \E index \in Cells : PlayHuman(index)
  \/ PlayEngineO
  \/ PlayEngineX

SpecPlay == InitPlay /\ [][NextPlay]_vars

-----------------------------------------------------------------------------
(***************************************************************************)
(* SpecRules: calculateWinner and getAvailableMoves applied to every       *)
(* 9-cell board over {null, X, O}.                                         *)
(***************************************************************************)
Boards == [Cells -> {Null} \cup Marks]

InitRules ==
  /\ squares \in Boards
  /\ xIsNext = TRUE
  /\ xPlayer = "human"
  /\ call = NoCall
  /\ Mounted

CallCalculateWinner ==
  /\ call = NoCall
  /\ call' = [op |-> "calculateWinner", result |-> calculateWinner(squares)]
  /\ UNCHANGED <<squares, xIsNext, xPlayer, sessionVars>>

CallGetAvailableMoves ==
  /\ call = NoCall
  /\ call' = [op |-> "getAvailableMoves",
              result |-> getAvailableMoves(squares)]
  /\ UNCHANGED <<squares, xIsNext, xPlayer, sessionVars>>

NextRules == CallCalculateWinner \/ CallGetAvailableMoves

SpecRules == InitRules /\ [][NextRules]_vars

-----------------------------------------------------------------------------
(***************************************************************************)
(* SpecSearch: minimax at depth 0, and the AI timer callback, applied to   *)
(* every board with at most MaxEmpty empty cells.  aiPlayer is O and       *)
(* humanPlayer is X; the player to move is either of them, so the root is  *)
(* a maximizing node (O to move) or a minimizing node (X to move).         *)
(***************************************************************************)
MaxEmpty == 6

SearchBoards ==
  {b \in Boards : Cardinality({i \in Cells : b[i] = Null}) <= MaxEmpty}

InitSearch ==
  /\ squares \in SearchBoards
  /\ xIsNext = FALSE
  /\ xPlayer = "human"
  /\ call = NoCall
  /\ Mounted

CallMinimax(currentPlayer) ==
  /\ call = NoCall
  /\ call' = [op |-> "minimax", currentPlayer |-> currentPlayer,
              result |-> minimax(squares, currentPlayer, aiPlayer,
                                 humanPlayer, 0)]
  /\ UNCHANGED <<squares, xIsNext, xPlayer, sessionVars>>

\* The timer callback run on the board; call keeps the board it was given.
CallAiTimerCallback ==
  /\ call = NoCall
  /\ \E after \in {aiTimerCallback(squares, xIsNext)} :
       squares' = after.squares /\ xIsNext' = after.xIsNext
  /\ call' = [op |-> "aiTimerCallback", squares |-> squares,
              xIsNext |-> xIsNext]
  /\ UNCHANGED <<xPlayer, sessionVars>>

NextSearch ==
  \/ \E currentPlayer \in Marks : CallMinimax(currentPlayer)
  \/ CallAiTimerCallback

SpecSearch == InitSearch /\ [][NextSearch]_vars

-----------------------------------------------------------------------------
\* The 8 lines of the grid as sets of cells: 3 rows, 3 columns, 2 diagonals.
Rows == {{3 * r + c : c \in 0..2} : r \in 0..2}
Columns == {{3 * r + c : r \in 0..2} : c \in 0..2}
Diagonals == {{0, 4, 8}, {2, 4, 6}}
WinLines == Rows \cup Columns \cup Diagonals

\* mark holds all three cells of some line of board b.
HasLine(b, mark) == \E line \in WinLines : \A i \in line : b[i] = mark

EmptyCells(b) == {i \in Cells : b[i] = Null}
CountOf(b, mark) == Cardinality({i \in Cells : b[i] = mark})

\* The game cannot continue: some mark has a line, or no cell is empty.
Finished(b) == HasLine(b, "X") \/ HasLine(b, "O") \/ EmptyCells(b) = {}

\* C1: the engine never loses.  In every game from the empty board in which
\* a human plays X on any empty cell and O is placed by the AI callback, no
\* board ever holds a completed line of X, and a finished game is a win for
\* O or a draw (a full board without any line).
C1_EngineNeverLoses ==
  xPlayer = "human" =>
    /\ ~HasLine(squares, "X")
    /\ Finished(squares) =>
         \/ HasLine(squares, "O")
         \/ (EmptyCells(squares) = {} /\ ~HasLine(squares, "O"))

\* A finished game in which the human holds the centre cell 4 and the
\* engine has completed a line of O.
C1_Witness ==
  /\ xPlayer = "human"
  /\ squares[4] = "X"
  /\ Finished(squares)
  /\ HasLine(squares, "O")

\* C2: computer versus computer.  With X and O both chosen by minimax, each
\* maximizing for itself, alternately from the empty board: no mark ever
\* completes a line, and as long as a cell is empty the engine to move
\* places its mark on an empty cell.  Every step fills one of the 9 cells,
\* so the game ends, and it ends on a full board without a winner.
C2_SelfPlayDraw ==
  xPlayer = "engine" =>
    /\ ~HasLine(squares, "X")
    /\ ~HasLine(squares, "O")
    /\ xIsNext = (CountOf(squares, "X") = CountOf(squares, "O"))
    /\ EmptyCells(squares) # {} =>
         LET after == IF xIsNext THEN xEngineStep(squares, xIsNext)
                      ELSE aiTimerCallback(squares, xIsNext)
         IN /\ after.xIsNext = ~xIsNext
            /\ EmptyCells(after.squares) \subseteq EmptyCells(squares)
            /\ Cardinality(EmptyCells(after.squares))
                 = Cardinality(EmptyCells(squares)) - 1

\* The end of the computer versus computer game: a full board, no winner.
C2_Witness ==
  /\ xPlayer = "engine"
  /\ EmptyCells(squares) = {}
  /\ winnerOf(squares) = Null
  /\ CountOf(squares, "X") = 5
  /\ CountOf(squares, "O") = 4

-----------------------------------------------------------------------------
\* Neither mark has a line and some cell is empty.
NonTerminal(b) == ~HasLine(b, "X") /\ ~HasLine(b, "O") /\ EmptyCells(b) # {}

Opponent(mark) == IF mark = "X" THEN "O" ELSE "X"

Place(b, i, mark) == [b EXCEPT ![i] = mark]

\* The empty cells on which mark completes a line at once.
ImmediateWins(b, mark) ==
  {i \in EmptyCells(b) : HasLine(Place(b, i, mark), mark)}

\* mark can force a win from board b with mover to move, whatever the other
\* player does.
RECURSIVE CanForceWin(_, _, _)
CanForceWin(b, mark, mover) ==
  IF HasLine(b, mark) THEN TRUE
  ELSE IF HasLine(b, Opponent(mark)) \/ EmptyCells(b) = {} THEN FALSE
  ELSE IF mover = mark
       THEN \E i \in EmptyCells(b) :
              CanForceWin(Place(b, i, mover), mark, Opponent(mover))
       ELSE \A i \in EmptyCells(b) :
              CanForceWin(Place(b, i, mover), mark, Opponent(mover))

\* C3: minimax at depth 0 never returns an occupied cell.  On a board
\* without a winner and with an empty cell the result has an index, and the
\* index is an empty cell of the board; on every other board the result has
\* no index at all.
C3_IndexIsEmptyCell ==
  call.op = "minimax" =>
    IF NonTerminal(squares)
    THEN /\ "index" \in DOMAIN call.result
         /\ call.result.index \in Cells
         /\ squares[call.result.index] = Null
    ELSE "index" \notin DOMAIN call.result

\* A search on a board whose lower-numbered cells are occupied: the index
\* returned is 5, an empty cell, with cells 0 and 1 taken.
C3_Witness ==
  /\ call.op = "minimax"
  /\ call.currentPlayer = aiPlayer
  /\ squares[0] # Null /\ squares[1] # Null
  /\ "index" \in DOMAIN call.result
  /\ call.result.index = 5
  /\ squares[5] = Null

\* X at 0 and 1, O at 4, the rest empty.
C4_Board ==
  [i \in Cells |-> IF i \in {0, 1} THEN "X" ELSE IF i = 4 THEN "O" ELSE Null]

\* C4: on the board X X _ / _ O _ / _ _ _ with the computer playing O,
\* calculateWinner gives none, getAvailableMoves gives [2,3,5,6,7,8] and
\* minimax(board, 'O', 'O', 'X') chooses index 2, the block.
C4_BlocksAtTwo ==
  (squares = C4_Board /\ call.op = "minimax"
     /\ call.currentPlayer = aiPlayer) =>
    /\ calculateWinner(squares) = Null
    /\ getAvailableMoves(squares) = <<2, 3, 5, 6, 7, 8>>
    /\ "index" \in DOMAIN call.result
    /\ call.result.index = 2

C4_Witness ==
  /\ squares = C4_Board
  /\ call.op = "minimax"
  /\ call.currentPlayer = aiPlayer
  /\ call.result.index = 2

\* C5: depth preference.  On a board without a winner where the computer,
\* to move, has a cell that completes a line for it at once, the move
\* minimax returns is such a cell.
C5_TakesImmediateWin ==
  (/\ call.op = "minimax"
   /\ call.currentPlayer = aiPlayer
   /\ NonTerminal(squares)
   /\ ImmediateWins(squares, aiPlayer) # {}) =>
    /\ "index" \in DOMAIN call.result
    /\ call.result.index \in ImmediateWins(squares, aiPlayer)

\* The computer wins at once on the cell returned, while a lower-numbered
\* empty cell does not win at once but still leads to a forced win.
C5_Witness ==
  /\ call.op = "minimax"
  /\ call.currentPlayer = aiPlayer
  /\ NonTerminal(squares)
  /\ "index" \in DOMAIN call.result
  /\ call.result.index \in ImmediateWins(squares, aiPlayer)
  /\ \E i \in EmptyCells(squares) :
       /\ i < call.result.index
       /\ i \notin ImmediateWins(squares, aiPlayer)
       /\ CanForceWin(Place(squares, i, aiPlayer), aiPlayer, humanPlayer)

SetMax(S) == CHOOSE x \in S : \A y \in S : y <= x
SetMin(S) == CHOOSE x \in S : \A y \in S : x <= y

\* On a board from which mark can force a win: the number of plies until
\* mark completes its line when mark wins as fast as it can and the other
\* player holds out as long as it can.
RECURSIVE PliesToWin(_, _, _)
PliesToWin(b, mark, mover) ==
  IF HasLine(b, mark) THEN 0
  ELSE IF mover = mark
       THEN 1 + SetMin({PliesToWin(Place(b, i, mover), mark, Opponent(mover)) :
                          i \in {j \in EmptyCells(b) :
                                   CanForceWin(Place(b, j, mover), mark,
                                               Opponent(mover))}})
       ELSE 1 + SetMax({PliesToWin(Place(b, i, mover), mark, Opponent(mover)) :
                          i \in EmptyCells(b)})

\* The plies left before humanPlayer's winning move after the computer
\* plays cell i on a board where every move of the computer loses.
DelayAfter(b, i) == PliesToWin(Place(b, i, aiPlayer), humanPlayer, humanPlayer)

\* C6: delay preference.  On a board with the computer to move where the
\* opponent can force a win whatever the computer plays, the move minimax
\* returns leaves as many plies before the opponent's winning move as any
\* legal move does.
C6_DelaysLoss ==
  (/\ call.op = "minimax"
   /\ call.currentPlayer = aiPlayer
   /\ NonTerminal(squares)
   /\ CanForceWin(squares, humanPlayer, aiPlayer)) =>
    /\ "index" \in DOMAIN call.result
    /\ call.result.index \in EmptyCells(squares)
    /\ DelayAfter(squares, call.result.index)
         = SetMax({DelayAfter(squares, i) : i \in EmptyCells(squares)})

\* A lost board on which the lowest empty cell loses sooner than the cell
\* minimax returns.
C6_Witness ==
  /\ call.op = "minimax"
  /\ call.currentPlayer = aiPlayer
  /\ NonTerminal(squares)
  /\ CanForceWin(squares, humanPlayer, aiPlayer)
  /\ "index" \in DOMAIN call.result
  /\ LET first == SetMin(EmptyCells(squares))
     IN /\ call.result.index # first
        /\ DelayAfter(squares, first)
             < DelayAfter(squares, call.result.index)

\* The pairs <<index, score>> of the legal moves of currentPlayer on board b
\* at the root: the score of a move is the score minimax gives, at depth 1,
\* to the board with the move made and the other player to move.
MoveScores(b, currentPlayer) ==
  {<<i, minimax(Place(b, i, currentPlayer), Opponent(currentPlayer),
                aiPlayer, humanPlayer, 1).score>> : i \in EmptyCells(b)}

\* C7: selection and tie-break.  On a non-terminal board minimax returns,
\* when the mover is the maximizing player, the greatest of the scores of
\* the legal moves, and when the mover is the minimizing player the least
\* of them, in both cases with the lowest index that has this score.
C7_SelectsBestLowestIndex ==
  (call.op = "minimax" /\ NonTerminal(squares)) =>
    LET pairs == MoveScores(squares, call.currentPlayer)
        values == {p[2] : p \in pairs}
        best == IF call.currentPlayer = aiPlayer
                THEN SetMax(values) ELSE SetMin(values)
    IN /\ call.result.score = best
       /\ call.result.index = SetMin({p[1] : p \in {q \in pairs : q[2] = best}})

\* A maximizing root and a minimizing root where several moves share the
\* best score and other moves score differently.
C7_Tie(currentPlayer) ==
  /\ call.op = "minimax"
  /\ call.currentPlayer = currentPlayer
  /\ NonTerminal(squares)
  /\ LET pairs == MoveScores(squares, currentPlayer)
     IN /\ \E p \in pairs : p[2] = call.result.score /\ p[1] > call.result.index
        /\ \E p \in pairs : p[2] # call.result.score /\ p[1] < call.result.index

C7_Witness == C7_Tie(aiPlayer)

C7_WitnessMinimizing == C7_Tie(humanPlayer)

\* C8: on a full board without a winner minimax returns score 0 and no
\* index, and the AI timer callback run on such a board (its search result
\* has no index) leaves the board and the turn as they were.
C8_NoMoveOnFullBoard ==
  /\ (call.op = "minimax" /\ EmptyCells(squares) = {}
        /\ ~HasLine(squares, "X") /\ ~HasLine(squares, "O")) =>
       call.result = [score |-> 0]
  /\ (call.op = "aiTimerCallback" /\ EmptyCells(call.squares) = {}
        /\ ~HasLine(call.squares, "X") /\ ~HasLine(call.squares, "O")) =>
       (squares = call.squares /\ xIsNext = call.xIsNext)

\* The callback has run on a full board without a winner.
C8_Witness ==
  /\ call.op = "aiTimerCallback"
  /\ EmptyCells(call.squares) = {}
  /\ ~HasLine(call.squares, "X") /\ ~HasLine(call.squares, "O")
  /\ squares = call.squares
  /\ xIsNext = FALSE

\* C9: calculateWinner on any board.  If exactly one mark has a completed
\* line among the 8 lines, the result is that mark; if no line is
\* completed, the result is none.
C9_WinnerIsLineOwner ==
  call.op = "calculateWinner" =>
    /\ (HasLine(squares, "X") /\ ~HasLine(squares, "O")) => call.result = "X"
    /\ (HasLine(squares, "O") /\ ~HasLine(squares, "X")) => call.result = "O"
    /\ (~HasLine(squares, "X") /\ ~HasLine(squares, "O")) => call.result = Null

\* O alone has a line, the second diagonal 2-4-6, and is reported.
C9_Witness ==
  /\ call.op = "calculateWinner"
  /\ \A i \in {2, 4, 6} : squares[i] = "O"
  /\ ~HasLine(squares, "X")
  /\ call.result = "O"

\* C10: getAvailableMoves on any board returns the indices of the empty
\* cells, each once, in ascending order: 9 minus the number of occupied
\* cells of them, none of them occupied, and none at all on a full board.
C10_AvailableAreEmptyCells ==
  call.op = "getAvailableMoves" =>
    LET moves == call.result
        occupied == Cardinality(Cells \ EmptyCells(squares))
    IN /\ Len(moves) = 9 - occupied
       /\ \A k \in 1..Len(moves) : moves[k] \in Cells /\ squares[moves[k]] = Null
       /\ \A k \in 1..(Len(moves) - 1) : moves[k] < moves[k + 1]
       /\ {moves[k] : k \in 1..Len(moves)} = EmptyCells(squares)
       /\ (EmptyCells(squares) = {} => moves = <<>>)

\* A board with cells 0 and 8 among its empty cells.
C10_Witness ==
  /\ call.op = "getAvailableMoves"
  /\ squares[0] = Null /\ squares[8] = Null /\ squares[4] # Null
  /\ Len(call.result) = 5
  /\ call.result[1] = 0 /\ call.result[5] = 8

-----------------------------------------------------------------------------
(***************************************************************************)
(* Spec: the game session of the App component.                            *)
(*                                                                         *)
(* The state hooks are the variables squares, xIsNext, mode, scores,       *)
(* gameOver and statusBanner; a set-state call changes them at once, and   *)
(* the functional update of scores reads the latest value.  What the code  *)
(* of a render reads is the record rendered: a handler, an effect or a     *)
(* timer callback sees the values of the render that created it.           *)
(*                                                                         *)
(* A click on a square or a button runs its handler, renders, commits and  *)
(* runs the effects of that commit in one step.  The set-state calls made  *)
(* by an effect or by the timer callback are rendered by a later step      *)
(* (Render), and the effects of such a render run in a step after it       *)
(* (FlushPassive); effects left pending always run before the next render. *)
(* A click may come between these steps; the 350ms timer expires after     *)
(* them.                                                                   *)
(***************************************************************************)

\* const currentPlayer = xIsNext ? 'X' : 'O'
currentPlayerOf(x) == IF x THEN "X" ELSE "O"

\* The six state hooks as one record.
hooks ==
  [squares |-> squares, xIsNext |-> xIsNext, mode |-> mode,
   scores |-> scores, gameOver |-> gameOver, statusBanner |-> statusBanner]

\* What a render of the state st captures.
renderOfHooks(st) == renderOf(st.squares, st.xIsNext, st.mode, st.gameOver)

\* handleSquareClick without the test of the cell in its guard.
handleSquareClickNoCellTest(st, r, index) ==
  IF r.gameOver \/ (r.mode = "AI" /\ ~r.xIsNext) THEN st
  ELSE [st EXCEPT !.squares = [r.squares EXCEPT
                                 ![index] = currentPlayerOf(r.xIsNext)],
                  !.xIsNext = ~r.xIsNext]

\* handleSquareClick without the test of the turn in AI mode.
handleSquareClickNoTurnTest(st, r, index) ==
  IF r.gameOver \/ r.squares[index] # Null THEN st
  ELSE [st EXCEPT !.squares = [r.squares EXCEPT
                                 ![index] = currentPlayerOf(r.xIsNext)],
                  !.xIsNext = ~r.xIsNext]

\* handleSquareClick(index), run by the render r on the state st:
\*   if (gameOver || squares[index] || (mode === 'AI' && !xIsNext)) return;
\*   next[index] = currentPlayer; setSquares(next); setXIsNext(!xIsNext)
handleSquareClick(st, r, index) ==
  IF r.gameOver \/ r.squares[index] # Null \/ (r.mode = "AI" /\ ~r.xIsNext)
  THEN st
  ELSE [st EXCEPT !.squares = [r.squares EXCEPT
                                 ![index] = currentPlayerOf(r.xIsNext)],
                  !.xIsNext = ~r.xIsNext]

\* startNewRound that also clears the score counters.
startNewRoundClearsScores(st) ==
  [st EXCEPT !.squares = EmptyBoard, !.xIsNext = TRUE,
             !.scores = [X |-> 0, O |-> 0, draws |-> 0],
             !.statusBanner = "X's turn", !.gameOver = FALSE]

\* startNewRound: setSquares(Array(9).fill(null)); setXIsNext(true);
\* setStatusBanner("X's turn"); setGameOver(false)
startNewRound(st) ==
  [st EXCEPT !.squares = EmptyBoard, !.xIsNext = TRUE,
             !.statusBanner = "X's turn", !.gameOver = FALSE]

\* resetGame: the same, with setMode('AI') and setScores({X: 0, O: 0, draws: 0})
resetGame(st) ==
  [st EXCEPT !.squares = EmptyBoard, !.xIsNext = TRUE, !.mode = "AI",
             !.scores = [X |-> 0, O |-> 0, draws |-> 0],
             !.statusBanner = "X's turn", !.gameOver = FALSE]

\* changeMode(newMode): setMode(newMode); startNewRound()
changeMode(st, newMode) == startNewRound([st EXCEPT !.mode = newMode])

\* The dependencies [winner, isDraw, currentPlayer] of the game over effect
\* in the render r.
gameOverDeps(r) ==
  <<winnerOf(r.squares), isDraw(r.squares), currentPlayerOf(r.xIsNext)>>

\* A game over effect that tests isDraw before winner.
gameOverEffectDrawFirst(st, r) ==
  IF Len(getAvailableMoves(r.squares)) = 0
  THEN [st EXCEPT !.gameOver = TRUE, !.statusBanner = "It's a draw!",
                  !.scores = [@ EXCEPT !.draws = @ + 1]]
  ELSE IF winnerOf(r.squares) # Null
  THEN [st EXCEPT !.gameOver = TRUE,
                  !.statusBanner = winnerOf(r.squares) \o " wins!",
                  !.scores = [@ EXCEPT ![winnerOf(r.squares)] = @ + 1]]
  ELSE [st EXCEPT !.gameOver = FALSE,
                  !.statusBanner = currentPlayerOf(r.xIsNext) \o "'s turn"]

\* The body of the game over effect, run by the render r on the state st.
gameOverEffect(st, r) ==
  IF winnerOf(r.squares) # Null
  THEN [st EXCEPT !.gameOver = TRUE,
                  !.statusBanner = winnerOf(r.squares) \o " wins!",
                  !.scores = [@ EXCEPT ![winnerOf(r.squares)] = @ + 1]]
  ELSE IF isDraw(r.squares)
  THEN [st EXCEPT !.gameOver = TRUE, !.statusBanner = "It's a draw!",
                  !.scores = [@ EXCEPT !.draws = @ + 1]]
  ELSE [st EXCEPT !.gameOver = FALSE,
                  !.statusBanner = currentPlayerOf(r.xIsNext) \o "'s turn"]

\* An AI move effect that does not test the gameOver flag.
aiMoveEffectNoGameOverTest(r) ==
  IF r.mode = "AI" /\ ~r.xIsNext
  THEN [set |-> TRUE, squares |-> r.squares]
  ELSE NoTimer

\* An AI move effect that does not test the mode.
aiMoveEffectAnyMode(r) ==
  IF ~r.gameOver /\ ~r.xIsNext
  THEN [set |-> TRUE, squares |-> r.squares]
  ELSE NoTimer

\* The body of the AI move effect in the render r: the timer it leaves
\* pending.  The callback keeps the board of r.
\*   if (mode === 'AI' && !gameOver && !xIsNext) { setTimeout(..., 350) }
aiMoveEffect(r) ==
  IF r.mode = "AI" /\ ~r.gameOver /\ ~r.xIsNext
  THEN [set |-> TRUE, squares |-> r.squares]
  ELSE NoTimer

\* Effects that never clear the timer of the previous render.
runEffectsNoCleanup(w, prev, r) ==
  [st |-> IF gameOverDeps(prev) # gameOverDeps(r)
          THEN gameOverEffect(w.st, r) ELSE w.st,
   timer |-> IF prev # r /\ aiMoveEffect(r).set THEN aiMoveEffect(r)
             ELSE w.timer]

\* The effects of the commit of render r, prev being the render before it,
\* on w = [st, timer].  An effect runs when one of its dependencies differs
\* from the previous render.  The game over effect runs first.  The AI move
\* effect depends on [mode, gameOver, xIsNext, squares], all that a render
\* record holds: when it runs again its cleanup clears the timer of the
\* previous render (return () => clearTimeout(timer)) before its body runs.
runEffects(w, prev, r) ==
  [st |-> IF gameOverDeps(prev) # gameOverDeps(r)
          THEN gameOverEffect(w.st, r) ELSE w.st,
   timer |-> IF prev # r THEN aiMoveEffect(r) ELSE w.timer]

\* A click handled by React: st1 is the state the handler leaves.  Effects
\* still pending from the last commit run first, then the state is rendered
\* and committed and the effects of this commit run.
afterEvent(st1) ==
  LET w0 == [st |-> st1, timer |-> timer]
      w1 == IF passive THEN runEffects(w0, flushed, rendered) ELSE w0
      r1 == renderOfHooks(w1.st)
      w2 == runEffects(w1, rendered, r1)
  IN [st |-> w2.st, timer |-> w2.timer, rendered |-> r1]

\* The variables after a click handled by React.
Commit(w) ==
  /\ squares' = w.st.squares
  /\ xIsNext' = w.st.xIsNext
  /\ mode' = w.st.mode
  /\ scores' = w.st.scores
  /\ gameOver' = w.st.gameOver
  /\ statusBanner' = w.st.statusBanner
  /\ timer' = w.timer
  /\ rendered' = w.rendered
  /\ flushed' = w.rendered
  /\ passive' = FALSE

\* The number of rounds counted in a session is bounded.
MaxRounds == 2

RoundsCounted == scores.X + scores.O + scores.draws

Init ==
  /\ squares = EmptyBoard
  /\ xIsNext = TRUE
  /\ xPlayer = "human"
  /\ call = NoCall
  /\ Mounted

\* A click on square index whose handler sets the state.  (A click whose
\* handler returns at its guard changes nothing.)
HandleSquareClick(index) ==
  /\ handleSquareClick(hooks, rendered, index) # hooks
  /\ \E w \in {afterEvent(handleSquareClick(hooks, rendered, index))} :
       Commit(w)
  /\ call' = [op |-> "handleSquareClick", index |-> index]
  /\ UNCHANGED xPlayer

\* A click on New Round.
StartNewRound ==
  /\ RoundsCounted < MaxRounds
  /\ \E w \in {afterEvent(startNewRound(hooks))} : Commit(w)
  /\ call' = [op |-> "startNewRound"]
  /\ UNCHANGED xPlayer

\* A click on Reset Game.
ResetGame ==
  /\ \E w \in {afterEvent(resetGame(hooks))} : Commit(w)
  /\ call' = [op |-> "resetGame"]
  /\ UNCHANGED xPlayer

\* A click on 2-Player or on Play vs AI.
ChangeMode(newMode) ==
  /\ RoundsCounted < MaxRounds
  /\ \E w \in {afterEvent(changeMode(hooks, newMode))} : Commit(w)
  /\ call' = [op |-> "changeMode", newMode |-> newMode]
  /\ UNCHANGED xPlayer

\* React has rendered the latest state and run the effects of that render.
Settled == ~passive /\ renderOfHooks(hooks) = rendered

\* The timer expires and its callback runs on the board it captured.  Its
\* set-state calls wait for the next render.  The timer expires 350ms after
\* the effect set it: the render and the effects that React has queued
\* without delay run before that, while a click may come at any moment.
AiTimerFires ==
  /\ timer.set
  /\ Settled
  /\ \E after \in {aiTimerCallback(timer.squares, xIsNext)} :
       IF after.squares # timer.squares
       THEN squares' = after.squares /\ xIsNext' = after.xIsNext
       ELSE UNCHANGED <<squares, xIsNext>>
  /\ timer' = NoTimer
  /\ call' = [op |-> "aiTimerCallback", squares |-> timer.squares,
              xIsNext |-> xIsNext]
  /\ UNCHANGED <<xPlayer, mode, scores, gameOver, statusBanner, rendered,
                 flushed, passive>>

\* React renders and commits the state set by effects or by the timer
\* callback; the effects of this commit are left pending.
Render ==
  /\ ~passive
  /\ renderOfHooks(hooks) # rendered
  /\ rendered' = renderOfHooks(hooks)
  /\ passive' = TRUE
  /\ call' = [op |-> "render"]
  /\ UNCHANGED <<squares, xIsNext, xPlayer, mode, scores, gameOver,
                 statusBanner, flushed, timer>>

\* The pending effects of the last commit run.
FlushPassive ==
  /\ passive
  /\ \E w \in {runEffects([st |-> hooks, timer |-> timer], flushed, rendered)} :
       /\ squares' = w.st.squares
       /\ xIsNext' = w.st.xIsNext
       /\ mode' = w.st.mode
       /\ scores' = w.st.scores
       /\ gameOver' = w.st.gameOver
       /\ statusBanner' = w.st.statusBanner
       /\ timer' = w.timer
  /\ flushed' = rendered
  /\ passive' = FALSE
  /\ call' = [op |-> "useEffect"]
  /\ UNCHANGED <<xPlayer, rendered>>

Next ==
  \/ \E index \in Cells : HandleSquareClick(index)
  \/ StartNewRound
  \/ ResetGame
  \/ \E newMode \in {"AI", "HUMAN"} : ChangeMode(newMode)
  \/ AiTimerFires
  \/ Render
  \/ FlushPassive

Spec == Init /\ [][Next]_vars

-----------------------------------------------------------------------------
\* The mark that the step puts on the board, on a cell that was empty, the
\* rest of the board staying as it was; Null when the step is no such move.
MarkPlaced ==
  IF \E i \in Cells :
       /\ squares[i] = Null
       /\ squares'[i] # Null
       /\ squares' = [squares EXCEPT ![i] = squares'[i]]
  THEN squares'[CHOOSE i \in Cells : squares[i] # squares'[i]]
  ELSE Null

\* C11: a board is a draw iff it has no winner and no empty cell, and a move
\* that fills the last empty cell and completes a line counts as a win: the
\* counter of the mark placed goes up by 1 and the draws counter stays.
C11_LastCellWinIsNotDraw ==
  [][/\ isDraw(squares') <=>
          (~HasLine(squares', "X") /\ ~HasLine(squares', "O")
             /\ EmptyCells(squares') = {})
     /\ (/\ MarkPlaced # Null
         /\ ~Finished(squares)
         /\ EmptyCells(squares') = {}
         /\ HasLine(squares', MarkPlaced)) =>
          /\ scores'[MarkPlaced] = scores[MarkPlaced] + 1
          /\ scores'.draws = scores.draws
          /\ gameOver']_vars

\* X has just filled the last cell and completed a line with it: one win
\* for X is counted and no draw.
C11_Witness ==
  /\ call.op = "handleSquareClick"
  /\ EmptyCells(squares) = {}
  /\ HasLine(squares, "X")
  /\ ~HasLine(squares, "O")
  /\ ~isDraw(squares)
  /\ scores = [X |-> 1, O |-> 0, draws |-> 0]

\* C12: in every reachable state of the session, in either mode, the board
\* holds as many X marks as O marks, or one X mark more.
C12_MarkCountDifference ==
  /\ CountOf(squares, "X") - CountOf(squares, "O") \in {0, 1}
  /\ CountOf(rendered.squares, "X") - CountOf(rendered.squares, "O") \in {0, 1}

\* The computer has just placed its third O, in a session that had a mode
\* change before this round.
C12_Witness ==
  /\ call.op = "aiTimerCallback"
  /\ mode = "AI"
  /\ CountOf(squares, "X") = 3
  /\ CountOf(squares, "O") = 3
  /\ CountOf(call.squares, "O") = 2
  /\ RoundsCounted = 1

\* C13: the search is never run on a finished game.  Whenever the timer
\* callback has called minimax, the mode is AI, it was O's turn, and the
\* board it passed has no winner and an empty cell.  The render of a human
\* move that ends the game still has gameOver false, so the AI move effect
\* sets the timer on the finished board; the game over effect of the same
\* commit sets gameOver, and the cleanup of the next render clears the timer
\* before it expires.
C13_SearchOnlyOnUnfinishedGame ==
  /\ call.op = "aiTimerCallback" =>
       /\ mode = "AI"
       /\ ~call.xIsNext
       /\ NonTerminal(call.squares)
  /\ (timer.set /\ Settled) =>
       /\ rendered.mode = "AI"
       /\ ~rendered.xIsNext
       /\ NonTerminal(timer.squares)

\* The human has just filled the board in AI mode: the timer is set on the
\* full board, with gameOver false in the render and true in the state.
C13_TimerSetOnFinishedBoard ==
  /\ call.op = "handleSquareClick"
  /\ mode = "AI"
  /\ EmptyCells(squares) = {}
  /\ timer.set
  /\ timer.squares = squares
  /\ ~rendered.gameOver
  /\ gameOver

\* The callback has run the search and placed an O, in a session whose
\* earlier round ended in a draw.
C13_Witness ==
  /\ call.op = "aiTimerCallback"
  /\ mode = "AI"
  /\ NonTerminal(call.squares)
  /\ squares # call.squares
  /\ scores = [X |-> 0, O |-> 0, draws |-> 1]

\* The step is a new round, a reset or a mode change, which empty the board.
BoardCleared ==
  /\ call'.op \in {"startNewRound", "resetGame", "changeMode"}
  /\ squares' = EmptyBoard

\* C14: no mark is placed on an occupied cell.  A click on a square that
\* holds a mark, in the render or in the state, sets no state; and in every
\* step a cell that holds a mark keeps it, unless the step is a new round,
\* a reset or a mode change, which empty the board.  (The callback's test
\* of squares[aiIndex] is part of every AI move of the session.)
C14_MarksStay ==
  [][/\ \A index \in Cells :
          (rendered.squares[index] # Null \/ squares[index] # Null) =>
            handleSquareClick(hooks, rendered, index) = hooks
     /\ \A i \in Cells :
          squares[i] # Null => (squares'[i] = squares[i] \/ BoardCleared)]_vars

\* In 2-Player mode O has just been placed by a click on an empty square,
\* next to squares that hold marks and refuse a click.
C14_Witness ==
  /\ call.op = "handleSquareClick"
  /\ mode = "HUMAN"
  /\ squares[call.index] = "O"
  /\ CountOf(squares, "X") = 3
  /\ ~gameOver
  /\ \E index \in Cells :
       /\ squares[index] = "X"
       /\ handleSquareClick(hooks, rendered, index) = hooks

NoScores == [X |-> 0, O |-> 0, draws |-> 0]

\* C15: startNewRound empties the board and gives the turn to X, leaving
\* the counters and the mode; changeMode sets the mode and does the same,
\* leaving the counters; resetGame sets the counters to 0 and the mode to
\* AI.  Stated of the handlers in every reachable state, and of the steps:
\* after a new round or a mode change the board is empty, X is to move, and
\* the counters are those before the click (when no effect of an earlier
\* render was still to run, which may count the round just ended); no step
\* other than a reset lowers a counter.
C15_NewRoundKeepsScores ==
  [][/\ startNewRound(hooks) =
          [hooks EXCEPT !.squares = EmptyBoard, !.xIsNext = TRUE,
                        !.gameOver = FALSE, !.statusBanner = "X's turn"]
     /\ \A newMode \in {"AI", "HUMAN"} :
          changeMode(hooks, newMode) =
            [startNewRound(hooks) EXCEPT !.mode = newMode]
     /\ resetGame(hooks) =
          [startNewRound(hooks) EXCEPT !.mode = "AI", !.scores = NoScores]
     /\ call'.op = "startNewRound" =>
          /\ squares' = EmptyBoard /\ xIsNext' /\ mode' = mode
          /\ ~passive => scores' = scores
     /\ call'.op = "changeMode" =>
          /\ squares' = EmptyBoard /\ xIsNext' /\ mode' = call'.newMode
          /\ ~passive => scores' = scores
     /\ call'.op = "resetGame" =>
          /\ squares' = EmptyBoard /\ xIsNext' /\ mode' = "AI"
          /\ ~passive => scores' = NoScores
     /\ (\E k \in {"X", "O", "draws"} : scores'[k] < scores[k]) =>
          call'.op = "resetGame"]_vars

\* A new round has been started in 2-Player mode after a round that X won:
\* the board is empty, X is to move, and the win is still counted.
C15_Witness ==
  /\ call.op = "startNewRound"
  /\ mode = "HUMAN"
  /\ squares = EmptyBoard
  /\ xIsNext
  /\ ~gameOver
  /\ scores = [X |-> 1, O |-> 0, draws |-> 0]

\* C16: once the board has a winner or is full, no further mark is placed,
\* by a click or by the computer, until a new round, a reset or a mode
\* change empties the board.  The click handler tests the gameOver of the
\* render it belongs to, and the render that shows the finished board still
\* has gameOver false: a click dispatched before the render of the game
\* over effect's setGameOver(true) places a mark on the finished board.
C16_NoMarkOnFinishedBoard ==
  [][Finished(squares) => (squares' = squares \/ BoardCleared)]_vars

\* What does hold: once the render with gameOver true is committed, the
\* board stays as it is until it is emptied.
C16_NoMarkOnceGameOverRendered ==
  [][(Finished(squares) /\ rendered.gameOver /\ rendered.squares = squares) =>
        (squares' = squares \/ BoardCleared)]_vars

\* In 2-Player mode a click has placed an O on a board on which X already
\* had three in a line.
C16_MarkOnFinishedBoard ==
  /\ call.op = "handleSquareClick"
  /\ mode = "HUMAN"
  /\ squares[call.index] = "O"
  /\ HasLine([squares EXCEPT ![call.index] = Null], "X")

\* The counter a finished board is counted in: the winner's, or draws.
RoundResult(sq) ==
  IF winnerOf(sq) # Null THEN winnerOf(sq) ELSE "draws"

\* C17: every finished round is counted exactly once.  A step that changes
\* the counters is a reset, or it counts a finished board that was not
\* counted before (gameOver, set together with the counter, is still
\* false): exactly one counter, the one of the board's result, goes up by
\* exactly 1.  No other step changes the counters.
C17_RoundCountedOnce ==
  [][scores' # scores =>
       \/ call'.op = "resetGame"
       \/ /\ ~gameOver
          /\ \E sq \in {squares, squares', rendered.squares} :
               /\ Finished(sq)
               /\ scores' = [scores EXCEPT ![RoundResult(sq)] = @ + 1]]_vars

\* A click on the finished board has made the game over effect count the
\* same win again: more rounds are counted than were played (a new round
\* starts only while RoundsCounted < MaxRounds).
C17_RoundCountedTwice ==
  /\ call.op = "handleSquareClick"
  /\ HasLine([squares EXCEPT ![call.index] = Null], "X")
  /\ squares[call.index] = "O"
  /\ scores.X >= 2
  /\ RoundsCounted > MaxRounds

\* C18: a pending timer never applies a stale move.  A timer that is set
\* was set by the last render whose effects have run, in AI mode, on O's
\* turn, with gameOver false, and holds the board of that render, which is
\* the board of the state; when it can expire (every queued render and effect has run) the
\* state itself is in AI mode, on O's turn and not over.  The O the
\* callback has written is one mark added to the board it was computed
\* from, which was the board at that moment; in 2-Player mode no timer is
\* set and the computer places no mark.
C18_NoStaleMove ==
  /\ timer.set =>
       /\ timer.squares = flushed.squares
       /\ timer.squares = squares
       /\ flushed.mode = "AI" /\ ~flushed.xIsNext /\ ~flushed.gameOver
       /\ mode = "AI" /\ ~xIsNext
  /\ (timer.set /\ Settled) => ~gameOver
  /\ mode = "HUMAN" => (~timer.set /\ call.op # "aiTimerCallback")
  /\ call.op = "aiTimerCallback" =>
       /\ mode = "AI"
       /\ \E i \in Cells :
            /\ call.squares[i] = Null
            /\ squares = [call.squares EXCEPT ![i] = "O"]

\* In AI mode the human has filled the board without a line; the timer set
\* by that render has been cleared by the cleanup of the render that has
\* gameOver true, and the full board stays as it is on O's turn.
C18_Witness ==
  /\ call.op = "useEffect"
  /\ mode = "AI"
  /\ ~xIsNext
  /\ isDraw(squares)
  /\ gameOver /\ rendered.gameOver
  /\ ~timer.set
  /\ scores.draws = 1

\* The session with a timer that is allowed to fire: setTimeout runs its
\* callback once the 350 ms have passed, unless clearTimeout came first.
\* This is WF_vars(AiTimerFires) with both halves written out: the action
\* is enabled exactly when the timer is set and nothing is queued before it
\* (it then clears the timer, so it changes the state), and a step with
\* call' of the callback is a step of that action.
TimerCanFire == timer.set /\ Settled

TimerFired == call'.op = "aiTimerCallback"

SpecLive == Spec /\ ([]<>(~TimerCanFire) \/ []<><<TimerFired>>_vars)

\* In AI mode it is O's turn and the game is not over.
WaitingForComputer == mode = "AI" /\ ~xIsNext /\ ~gameOver

\* The callback has placed exactly one O on the board it was given and the
\* turn is X's.
ComputerMoved ==
  /\ call.op = "aiTimerCallback"
  /\ mode = "AI"
  /\ xIsNext
  /\ \E i \in Cells :
       /\ call.squares[i] = Null
       /\ squares = [call.squares EXCEPT ![i] = "O"]

\* A new round, a reset or a mode change has just happened.
Intervened == call.op \in {"startNewRound", "resetGame", "changeMode"}

\* C19: in AI mode, whenever it is O's turn and the game is not over, the
\* timer is pending on the board of the state, which has an empty cell and
\* no line, and nothing is queued before it; and, the timer being allowed
\* to fire, the computer eventually places exactly one O on that board and
\* the turn returns to X, unless a new round, a reset or a mode change
\* comes first.
C19_ComputerEventuallyMoves ==
  /\ [](WaitingForComputer =>
         (timer.set /\ Settled /\ timer.squares = squares
            /\ NonTerminal(squares)))
  /\ (WaitingForComputer ~> (ComputerMoved \/ Intervened))

\* The computer has answered the human's fourth X with its fourth O and
\* the round goes on.
C19_Witness ==
  /\ ComputerMoved
  /\ CountOf(squares, "O") = 4
  /\ CountOf(squares, "X") = 4
  /\ NonTerminal(squares)

\* The turn flag agrees with the marks on the board b.
TurnMatchesCounts(b, x) == x <=> (CountOf(b, "X") = CountOf(b, "O"))

\* C20: in AI mode the human only plays X on X's turn.  A click on a square
\* while it is O's turn, in the state or in the render, sets no state; a
\* step that places an O in AI mode is the timer callback placing the
\* move minimax chose for the board, and a step that places an X is a
\* click on an empty square on X's turn; and xIsNext is true exactly when
\* the board holds as many X marks as O marks.
C20_HumanPlaysXOnly ==
  [][/\ TurnMatchesCounts(squares, xIsNext)
     /\ TurnMatchesCounts(squares', xIsNext')
     /\ (mode = "AI" /\ (~xIsNext \/ ~rendered.xIsNext)) =>
          \A index \in Cells :
            handleSquareClick(hooks, rendered, index) = hooks
     /\ (mode = "AI" /\ MarkPlaced = "O") =>
          /\ call'.op = "aiTimerCallback"
          /\ ~xIsNext /\ xIsNext'
          /\ squares' = aiTimerCallback(squares, xIsNext).squares
     /\ (mode = "AI" /\ MarkPlaced = "X") =>
          /\ call'.op = "handleSquareClick"
          /\ xIsNext /\ ~xIsNext'
          /\ squares[call'.index] = Null
          /\ squares'[call'.index] = "X"]_vars

\* In AI mode the human has placed a third X and it is O's turn: a click
\* on a square that is still empty sets no state.
C20_Witness ==
  /\ call.op = "handleSquareClick"
  /\ WaitingForComputer
  /\ CountOf(squares, "X") = 3
  /\ CountOf(squares, "O") = 2
  /\ \E index \in Cells :
       /\ squares[index] = Null
       /\ handleSquareClick(hooks, rendered, index) = hooks

====
